---------------------------- MODULE Spec2Model ----------------------------
(***************************************************************************)
(* FastCGI client (package fastcgi): the request-ID pool (id.go), the      *)
(* framed connection and its stream writers (fcgi.go) and the request      *)
(* coordinator client.Do with its writer, reader and supervisor goroutines *)
(* (client.go).                                                            *)
(*                                                                         *)
(* Every goroutine of a Do call is a small program counter; an unbuffered  *)
(* channel send/receive pair and an io.Pipe Write/Read pair are each one   *)
(* rendezvous action.  Byte strings are abstracted to their lengths; the   *)
(* content of a peer record is the pair (request id, sequence number).     *)
(***************************************************************************)
EXTENDS Integers, Sequences, FiniteSets, Bags, TLC

\* ------------------------------------------------------------------ bounds
\* Number of Do calls issued on the one client.
NCalls == 2
\* Stand-in for maxWrite = 65535 (constant.go:67): the bufio buffer size and
\* the largest record body, scaled down so that flushes happen.
maxWrite == 3
\* Number of transport writes that fail.
MaxFaults == 1
\* Number of request contexts that are cancelled.
MaxCancels == 1
\* Number of writeRecord calls each goroutine makes when writeRecord is
\* followed step by step.
MaxRecs == 2
\* Number of client.Close calls.
MaxCloses == 2
\* Number of records other than EndRequest that the peer sends.
MaxJunk == 1
\* Capacity of the transport's receive direction (records in flight).
InboxCap == 1

\* ------------------------------------------------------- program constants
typeBeginRequest == 1
typeAbortRequest == 2
typeEndRequest == 3
typeParams == 4
typeStdin == 5
typeStdout == 6
typeStderr == 7
typeGetValuesResult == 10
\* newIDs clamps its limit to this many ids.
MaxIDs == 65536

Calls == 1..NCalls

NoErr == "nil"
WriteErr == "write error"
ReadErr == "stdin read error"
CancelErr == "gofast: timeout or canceled"
UnexpectedDiag == "unexpected type in readLoop"
BogusLine == "gofast: bogus header line"
LongLine == "gofast: long header line from subprocess"

Min(a, b) == IF a < b THEN a ELSE b

VARIABLES
  limit,     \* the argument newIDs was called with
  feed,      \* loop variable of newIDs' feeder goroutine (maxID+1: exited)
  released,  \* bag of ids held by Release goroutines blocked in p.ids <- id
  dpc,       \* Do: "enter" (called), "refused" (returned the closed error),
             \* "alloc" (blocked in Alloc) or "started" (returned resp)
  reqID,     \* Do's reqID
  req,       \* the *Request handed to Do
  ctxDone,   \* the request context is cancelled
  preEnd,    \* it was cancelled before the read loop had read EndRequest
  wlog,      \* per Do call, the records its writer handed to
             \* conn.writeRecord, in order
  wpc, wq, werr,   \* writer goroutine: position, records still to write, err
  rpc, rerr,       \* readResponse: position, returned err
  ipc, irec,       \* read-loop goroutine: position, content being piped
  wg,              \* sync.WaitGroup counter
  spc, serr,       \* supervisor goroutine: position, err being written
  nrel,            \* number of c.ids.Release(reqID) calls of this Do
  pclosed,         \* resp.Close() has closed both pipe writers
  sinkOut, sinkErr,\* what the consumer has read from each pipe
  wtDone,          \* the consumer's WriteTo has returned
  inbox,           \* records the peer has sent and no reader has read yet
  pend,            \* peer: EndRequest sent for the request
  nfault, ncancel, njunk, \* what the environment may still do: failed
                   \* transport writes, cancellations, peer records
  arg, ret, upc,   \* a single call of one function: its arguments, what it
                   \* returned, and whether it has returned
  mutex,           \* conn.mutex: 0, or the goroutine that holds it
  connBuf, connH,  \* conn.buf and conn.h, the scratch buffer and header
  rwc,             \* the c.rwc.Write calls made so far, in order
  tpc, tk,         \* per goroutine: position in writeRecord and number of
                   \* writeRecord calls it has returned from
  connNil,         \* client.conn == nil
  nclose,          \* number of c.conn.Close() calls
  closeRets        \* what the client.Close calls returned, in order

vars == <<limit, feed, released, dpc, reqID, req, ctxDone, preEnd, wlog, wpc, wq,
          werr,
          rpc, rerr, ipc, irec, wg, spc, serr, nrel, pclosed,
          sinkOut, sinkErr, wtDone, inbox, pend, nfault, ncancel, njunk,
          arg, ret, upc, mutex, connBuf, connH, rwc, tpc, tk,
          connNil, nclose, closeRets>>

poolVars == <<limit, feed, released>>
ctxVars == <<ctxDone, preEnd, ncancel>>
writerVars == <<wlog, wpc, wq, werr>>
readerVars == <<rpc, rerr, ipc, irec>>
superVars == <<spc, serr, nrel, pclosed>>
sinkVars == <<sinkOut, sinkErr, wtDone>>
peerVars == <<inbox, pend, njunk>>
unitVars == <<arg, ret, upc>>
\* What the goroutines of Do and their environment leave alone.
recVars == <<mutex, connBuf, connH, rwc, tpc, tk>>
closeVars == <<connNil, nclose, closeRets>>
otherVars == <<unitVars, recVars, closeVars>>
\* The state of Do, its goroutines and their environment.
doVars == <<poolVars, dpc, reqID, req, ctxVars, writerVars, nfault,
            readerVars, wg, superVars, sinkVars, peerVars>>

\* ------------------------------------------------------------------ id pool
\* newIDs: the clamped limit, and maxID = uint16(limit - 1).
newIDsMaxID(lim) ==
  ((IF lim = 0 \/ lim > MaxIDs THEN MaxIDs ELSE lim) - 1) % 65536

\* The id the feeder goroutine sends at loop position i: ids <- i while
\* i < maxID, then ids <- maxID.
feedValue(i, maxID) == IF i < maxID THEN i ELSE maxID

\* idPool.Release(id): one goroutine blocked in p.ids <- id.
ReleaseTwice(bag, id) == bag (+) SetToBag({id}) (+) SetToBag({id})
Release(bag, id) == bag (+) SetToBag({id})

\* ------------------------------------------------------------------ record
\* header.init: Version 1, ContentLength = uint16(contentLength),
\* PaddingLength = uint8(-contentLength & 7).
headerInitPadOfLength(recType, id, contentLength) ==
  [Version |-> 1, Type |-> recType, ID |-> id,
   ContentLength |-> contentLength % 65536,
   PaddingLength |-> contentLength % 8]
headerInit(recType, id, contentLength) ==
  [Version |-> 1, Type |-> recType, ID |-> id,
   ContentLength |-> contentLength % 65536,
   PaddingLength |-> ((-contentLength) % 8) % 256]

\* conn.writeRecord(recType, id, b) with len(b) = len: the header it
\* builds and the number of bytes of its one c.rwc.Write: the 8 bytes of the
\* header, b, and pad[:PaddingLength].
writeRecord(recType, id, len) ==
  LET h == headerInit(recType, id, len)
  IN  [h |-> h, n |-> 8 + len + h.PaddingLength]

\* ------------------------------------------------------------ stream writer
\* streamWriter.Write(p): len(p) bytes split into records of at most maxWrite.
RECURSIVE streamWrite(_)
streamWrite(len) ==
  IF len = 0 THEN <<>>
  ELSE <<Min(len, maxWrite)>> \o streamWrite(len - Min(len, maxWrite))

\* bufio.Writer.Write / WriteString of len bytes on a writer of size maxWrite
\* holding n bytes: the record bodies it hands to streamWriter.Write and the
\* bytes left in the buffer.  direct: the underlying writer takes a large
\* write on an empty buffer (Write does, WriteString on a streamWriter does
\* not).
RECURSIVE bufioWrite(_, _, _)
bufioWrite(n, len, direct) ==
  IF len > maxWrite - n
  THEN IF n = 0 /\ direct
       THEN [recs |-> streamWrite(len), n |-> 0]
       ELSE LET r == bufioWrite(0, len - (maxWrite - n), direct)
            IN  [recs |-> <<maxWrite>> \o r.recs, n |-> r.n]
  ELSE [recs |-> <<>>, n |-> n + len]

\* encodeSize: the number of bytes the size takes.
encodeSize(size) == IF size > 127 THEN 4 ELSE 1

\* encodeSize: the bytes it puts at the start of b.  A size above 127 is
\* written as the 4 big-endian bytes of size | 1<<31.
encodeSizeBytesAbove128(size) ==
  IF size > 128
  THEN <<128 + ((size \div 16777216) % 128), (size \div 65536) % 256,
         (size \div 256) % 256, size % 256>>
  ELSE <<size>>
encodeSizeBytes(size) ==
  IF size > 127
  THEN <<128 + ((size \div 16777216) % 128), (size \div 65536) % 256,
         (size \div 256) % 256, size % 256>>
  ELSE <<size>>

\* readSize(s): (size, n).  The first byte alone unless its bit 7 is set;
\* then binary.BigEndian.Uint32(s) with bit 31 cleared, or (0, 0) when s has
\* fewer than 4 bytes.
readSize(s) ==
  IF Len(s) = 0 THEN [size |-> 0, n |-> 0]
  ELSE IF s[1] < 128 THEN [size |-> s[1], n |-> 1]
  ELSE IF Len(s) < 4 THEN [size |-> 0, n |-> 0]
  ELSE [size |-> (s[1] % 128) * 16777216 + s[2] * 65536 + s[3] * 256 + s[4],
        n |-> 4]

\* A record the writer still has to hand to writeRecord.  kind "loop": a
\* flush forced by a Write inside the loop; "flush": the Flush of
\* bufWriter.Close; "term": the empty record of streamWriter.Close.  rd: this
\* Close is the one after a failed req.Stdin.Read.
Item(len, kind, rd) == [len |-> len, kind |-> kind, rd |-> rd]

RECURSIVE loopItems(_)
loopItems(recs) ==
  IF recs = <<>> THEN <<>>
  ELSE <<Item(Head(recs), "loop", FALSE)>> \o loopItems(Tail(recs))

\* bufWriter.Close with n bytes buffered: Flush, then the empty record.
closeItemsNoTerminator(n, rd) ==
  IF n > 0 THEN <<Item(n, "flush", rd)>> ELSE <<>>
closeItems(n, rd) ==
  (IF n > 0 THEN <<Item(n, "flush", rd)>> ELSE <<>>) \o <<Item(0, "term", rd)>>

\* A stream writer returned by newWriter: Write calls of the given lengths
\* with n bytes buffered, then Close.
RECURSIVE writesThenClose(_, _)
writesThenClose(writes, n) ==
  IF writes = <<>> THEN closeItems(n, FALSE)
  ELSE LET w == bufioWrite(n, Head(writes), TRUE)
       IN  loopItems(w.recs) \o writesThenClose(Tail(writes), w.n)

\* conn.writePairs: for each pair Write(sizes), WriteString(k),
\* WriteString(v); then w.Close().  pairs is the map in the order range
\* yields it.
RECURSIVE pairsLoop(_, _)
pairsLoop(pairs, n) ==
  IF pairs = <<>> THEN [recs |-> <<>>, n |-> n]
  ELSE LET p  == Head(pairs)
           a  == bufioWrite(n, encodeSize(p.k) + encodeSize(p.v), TRUE)
           b  == bufioWrite(a.n, p.k, FALSE)
           c  == bufioWrite(b.n, p.v, FALSE)
           r  == pairsLoop(Tail(pairs), c.n)
       IN  [recs |-> a.recs \o b.recs \o c.recs \o r.recs, n |-> r.n]

pairsPlan(pairs) ==
  LET r == pairsLoop(pairs, 0) IN loopItems(r.recs) \o closeItems(r.n, FALSE)

\* writeRequest's stdin loop: count, err = req.Stdin.Read(p); io.EOF is no
\* error; any other error closes the stream and returns; count = 0 ends the
\* loop; otherwise stdinWriter.Write(p[:count]).  A reader at its end keeps
\* returning (0, io.EOF).
RECURSIVE stdinLoop(_, _)
stdinLoop(reads, n) ==
  IF reads = <<>> THEN closeItems(n, FALSE)
  ELSE LET r == Head(reads) IN
       IF r.e = "err" THEN closeItems(n, TRUE)
       ELSE IF r.n = 0 THEN closeItems(n, FALSE)
       ELSE LET w == bufioWrite(n, r.n, TRUE)
            IN  loopItems(w.recs) \o stdinLoop(Tail(reads), w.n)

stdinPlan(r) == IF r.hasStdin THEN stdinLoop(r.stdin, 0) ELSE closeItems(0, FALSE)

\* newWriter(c.conn, typeStdin, reqID): the record type of the stdin stream.
stdinRecTypeParams == typeParams
stdinRecType == typeStdin

\* writeRequest's deferred function: if err != nil, writeAbortRequest.
abortNever(err) == FALSE
needsAbort(err) == err # NoErr

\* ---------------------------------------------------------------- requests
Pair(k, v) == [k |-> k, v |-> v]
Rd(n, e) == [n |-> n, e |-> e]
Request(params, hasStdin, stdin) ==
  [params |-> params, hasStdin |-> hasStdin, stdin |-> stdin]

\* The requests tried: no params and no stdin; two pairs that overflow the
\* buffer twice and a stdin that overflows it once; one pair and a stdin
\* whose second Read fails.
Requests ==
  { Request(<<>>, FALSE, <<>>),
    Request(<<Pair(1, 0), Pair(1, 1)>>, TRUE, <<Rd(2, "nil"), Rd(2, "eof")>>),
    Request(<<Pair(1, 0)>>, TRUE, <<Rd(1, "nil"), Rd(1, "err")>>) }

\* ------------------------------------------------------------------ records
\* A record handed to conn.writeRecord; ok: the transport write succeeded;
\* call: the Do call that wrote it.  writeRecord holds c.mutex from the
\* header to the transport write, so a call's records reach the transport
\* whole and in the order of wlog.
Rec(type, id, len, ok, call) ==
  [type |-> type, id |-> id, len |-> len, ok |-> ok, call |-> call]

\* A record sent by the peer: header version and type, request id, whether
\* the transport ends inside it, and its content: (id, seq) and, in text,
\* what the CGI parser will make of it.
PeerRec(version, type, id, trunc, seq, text) ==
  [version |-> version, type |-> type, id |-> id, trunc |-> trunc, seq |-> seq,
   text |-> text]

\* What the peer may send before EndRequest: Stdout, Stderr, a record of a
\* type the read loop does not expect, a header of version 2, and a record
\* cut short by the transport.
PeerShapes ==
  { [version |-> 1, type |-> typeStdout, trunc |-> FALSE, text |-> "content"],
    [version |-> 1, type |-> typeStderr, trunc |-> FALSE, text |-> "content"],
    [version |-> 1, type |-> typeGetValuesResult, trunc |-> FALSE, text |-> "content"],
    [version |-> 2, type |-> typeStdout, trunc |-> FALSE, text |-> "content"],
    [version |-> 1, type |-> typeStdout, trunc |-> TRUE, text |-> "content"] }

\* Stdout records that make writeResponse return before the end of the
\* stream: a record of at most 1024 bytes with a header line without a
\* colon, and a record of more than 1024 bytes whose first line does not
\* fit the 1024-byte bufio.Reader.
MalformedShapes ==
  { [version |-> 1, type |-> typeStdout, trunc |-> FALSE, text |-> BogusLine],
    [version |-> 1, type |-> typeStdout, trunc |-> FALSE, text |-> LongLine] }

\* record.read: nil, or an error for a short read or a version other than 1.
recordReadOK(rec) == ~rec.trunc /\ rec.version = 1

\* What goes through a pipe: a text, and for record content the (id, seq) of
\* the peer record it came from.
Datum(text, id, seq) == [text |-> text, id |-> id, seq |-> seq]
NoDatum == Datum("", 0, 0)

\* --------------------------------------------------------------------- Init
EmptyRequest == Request(<<>>, FALSE, <<>>)

\* No goroutine of a Do call runs yet; the feeder goroutine of newIDs does.
InitGoroutines ==
  /\ feed = 0
  /\ released = EmptyBag
  /\ reqID = [c \in Calls |-> 0]
  /\ ctxDone = [c \in Calls |-> FALSE]
  /\ preEnd = [c \in Calls |-> FALSE]
  /\ wlog = [c \in Calls |-> <<>>]
  /\ wpc = [c \in Calls |-> "idle"]
  /\ wq = [c \in Calls |-> <<>>]
  /\ werr = [c \in Calls |-> NoErr]
  /\ rpc = [c \in Calls |-> "idle"]
  /\ rerr = [c \in Calls |-> NoErr]
  /\ ipc = [c \in Calls |-> "idle"]
  /\ irec = [c \in Calls |-> NoDatum]
  /\ wg = [c \in Calls |-> 0]
  /\ spc = [c \in Calls |-> "idle"]
  /\ serr = [c \in Calls |-> NoErr]
  /\ nrel = [c \in Calls |-> 0]
  /\ pclosed = [c \in Calls |-> FALSE]
  /\ sinkOut = [c \in Calls |-> <<>>]
  /\ sinkErr = [c \in Calls |-> <<>>]
  /\ wtDone = [c \in Calls |-> FALSE]
  /\ inbox = <<>>
  /\ pend = [c \in Calls |-> FALSE]
  /\ ncancel = MaxCancels

\* What is the same in every initial state: newIDs has started its feeder
\* goroutine, NCalls callers are in Do at c.ids.Alloc().
InitBase ==
  /\ dpc = [c \in Calls |-> "alloc"]
  /\ InitGoroutines
  /\ njunk = MaxJunk

\* No single function call is being looked at.
UnitIdle ==
  /\ arg = [op |-> "none"]
  /\ ret = [op |-> "none"]
  /\ upc = "idle"

\* No writeRecord call is followed step by step.
RecordIdle ==
  /\ mutex = 0
  /\ connBuf = <<>>
  /\ connH = <<0, 0>>
  /\ rwc = <<>>
  /\ tpc = [t \in Calls |-> "idle"]
  /\ tk = [t \in Calls |-> 0]

\* NewClient has returned the client; Close has not been called.
CloseIdle ==
  /\ connNil = FALSE
  /\ nclose = 0
  /\ closeRets = <<>>

\* The limits newIDs is called with: 0 (no limit: 65536 ids) and 1 (a pool
\* that is exhausted by one call).
Limits == {0, 1}

\* Concurrent calls, requests without params or stdin.
Init ==
  /\ InitBase
  /\ limit \in Limits
  /\ req = [c \in Calls |-> EmptyRequest]
  /\ nfault = MaxFaults
  /\ UnitIdle
  /\ RecordIdle
  /\ CloseIdle

\* Calls that follow each other on a pool of one id; the first to be named
\* carries params and stdin.
InitWriter ==
  /\ InitBase
  /\ limit = 1
  /\ \E r \in Requests : req = [c \in Calls |-> IF c = 1 THEN r ELSE EmptyRequest]
  /\ nfault = MaxFaults
  /\ UnitIdle
  /\ RecordIdle
  /\ CloseIdle

\* As InitWriter, on a transport that accepts every write.
InitFair ==
  /\ InitBase
  /\ limit = 1
  /\ \E r \in Requests : req = [c \in Calls |-> IF c = 1 THEN r ELSE EmptyRequest]
  /\ nfault = 0
  /\ UnitIdle
  /\ RecordIdle
  /\ CloseIdle

\* As InitFair, with a peer that sends one more record before EndRequest.
InitReader ==
  /\ dpc = [c \in Calls |-> "alloc"]
  /\ InitGoroutines
  /\ njunk = MaxJunk + 1
  /\ limit = 1
  /\ \E r \in Requests : req = [c \in Calls |-> IF c = 1 THEN r ELSE EmptyRequest]
  /\ nfault = 0
  /\ UnitIdle
  /\ RecordIdle
  /\ CloseIdle

\* ----------------------------------------------------------------------- Do
\* Do after reqID := c.ids.Alloc(): NewResponsePipe, wg.Add(2) and the four
\* go statements; readResponse has started its read loop.
DoStart(c, id) ==
  /\ dpc' = [dpc EXCEPT ![c] = "started"]
  /\ reqID' = [reqID EXCEPT ![c] = id]
  /\ wg' = [wg EXCEPT ![c] = 2]
  /\ wpc' = [wpc EXCEPT ![c] = "begin"]
  /\ rpc' = [rpc EXCEPT ![c] = "select"]
  /\ ipc' = [ipc EXCEPT ![c] = "read"]
  /\ spc' = [spc EXCEPT ![c] = "select"]
  /\ UNCHANGED <<limit, req, otherVars, ctxVars, nfault, wlog, wq, werr, rerr, irec,
                 serr, nrel, pclosed, sinkVars, peerVars>>

\* Alloc receives from the feeder goroutine of newIDs.
DoAllocFeeder(c) ==
  /\ dpc[c] = "alloc"
  /\ feed <= newIDsMaxID(limit)
  /\ feed' = feed + 1
  /\ UNCHANGED released
  /\ DoStart(c, feedValue(feed, newIDsMaxID(limit)))

\* Alloc receives from a goroutine started by Release.
DoAllocReleased(c) ==
  /\ dpc[c] = "alloc"
  /\ \E id \in BagToSet(released) :
       /\ released' = released (-) SetToBag({id})
       /\ UNCHANGED feed
       /\ DoStart(c, id)

\* ------------------------------------------------------------------- writer
\* Where the writer goroutine goes when writeRequest returns err: the
\* deferred abort, the send on rwError, or wg.Done.
retPc(err) ==
  IF needsAbort(err) THEN "abort" ELSE IF err # NoErr THEN "send" ELSE "done"

WriterReturn(c, err) ==
  /\ werr' = [werr EXCEPT ![c] = err]
  /\ wpc' = [wpc EXCEPT ![c] = retPc(err)]
  /\ wg' = [wg EXCEPT ![c] = IF retPc(err) = "done" THEN @ - 1 ELSE @]

\* c.conn.writeBeginRequest(reqID, role, 1).
WriterBegin(c) ==
  /\ wpc[c] = "begin"
  /\ \E ok \in BOOLEAN :
       /\ ok \/ nfault > 0
       /\ nfault' = IF ok THEN nfault ELSE nfault - 1
       /\ wlog' = [wlog EXCEPT ![c] = Append(@, Rec(typeBeginRequest, reqID[c], 8, ok, c))]
       /\ IF ok
          THEN /\ wpc' = [wpc EXCEPT ![c] = "pairs"]
               /\ wq' = [wq EXCEPT ![c] = pairsPlan(req[c].params)]
               /\ UNCHANGED <<werr, wg>>
          ELSE /\ WriterReturn(c, WriteErr)
               /\ UNCHANGED wq
  /\ UNCHANGED <<poolVars, dpc, reqID, req, otherVars, ctxVars, readerVars,
                 superVars, sinkVars, peerVars>>

\* One writeRecord of c.conn.writePairs(typeParams, reqID, req.Params).  A
\* failed Write inside the loop returns at once; a failed Flush in Close is
\* followed by the empty record; the error of Close is returned.
WriterPairs(c) ==
  /\ wpc[c] = "pairs"
  /\ LET it == Head(wq[c]) IN
     \E ok \in BOOLEAN :
       /\ ok \/ nfault > 0
       /\ nfault' = IF ok THEN nfault ELSE nfault - 1
       /\ wlog' = [wlog EXCEPT ![c] = Append(@, Rec(typeParams, reqID[c], it.len, ok, c))]
       /\ LET err == IF werr[c] # NoErr \/ ok THEN werr[c] ELSE WriteErr IN
          IF it.kind = "loop" /\ ~ok
          THEN WriterReturn(c, err) /\ UNCHANGED wq
          ELSE IF it.kind = "term"
          THEN IF err = NoErr
               THEN /\ wq' = [wq EXCEPT ![c] = stdinPlan(req[c])]
                    /\ wpc' = [wpc EXCEPT ![c] = "stdin"]
                    /\ UNCHANGED <<werr, wg>>
               ELSE WriterReturn(c, err) /\ UNCHANGED wq
          ELSE /\ wq' = [wq EXCEPT ![c] = Tail(@)]
               /\ werr' = [werr EXCEPT ![c] = err]
               /\ UNCHANGED <<wpc, wg>>
  /\ UNCHANGED <<poolVars, dpc, reqID, req, otherVars, ctxVars, readerVars,
                 superVars, sinkVars, peerVars>>

\* One writeRecord of the stdin stream.  A failed Write inside the loop, and
\* a failed Read, are followed by stdinWriter.Close() and return the error;
\* after a failed Flush the bufio.Writer writes nothing more, and Close still
\* sends the empty record.
WriterStdin(c) ==
  /\ wpc[c] = "stdin"
  /\ LET it == Head(wq[c]) IN
     \E ok \in BOOLEAN :
       /\ ok \/ nfault > 0
       /\ nfault' = IF ok THEN nfault ELSE nfault - 1
       /\ wlog' = [wlog EXCEPT ![c] = Append(@, Rec(stdinRecType, reqID[c], it.len, ok, c))]
       /\ LET err == IF werr[c] # NoErr THEN werr[c]
                     ELSE IF it.rd THEN ReadErr
                     ELSE IF ok THEN NoErr ELSE WriteErr IN
          IF it.kind = "term"
          THEN WriterReturn(c, err) /\ UNCHANGED wq
          ELSE /\ wq' = [wq EXCEPT ![c] =
                           IF it.kind = "loop" /\ ~ok
                           THEN closeItems(0, FALSE) ELSE Tail(@)]
               /\ werr' = [werr EXCEPT ![c] = err]
               /\ UNCHANGED <<wpc, wg>>
  /\ UNCHANGED <<poolVars, dpc, reqID, req, otherVars, ctxVars, readerVars,
                 superVars, sinkVars, peerVars>>

\* The deferred c.conn.writeAbortRequest(reqID); its error is dropped.
WriterAbort(c) ==
  /\ wpc[c] = "abort"
  /\ \E ok \in BOOLEAN :
       /\ ok \/ nfault > 0
       /\ nfault' = IF ok THEN nfault ELSE nfault - 1
       /\ wlog' = [wlog EXCEPT ![c] =
                     Append(@, Rec(typeAbortRequest, reqID[c], 0, ok, c))]
  /\ wpc' = [wpc EXCEPT ![c] = IF werr[c] # NoErr THEN "send" ELSE "done"]
  /\ wg' = [wg EXCEPT ![c] = IF werr[c] # NoErr THEN @ ELSE @ - 1]
  /\ UNCHANGED <<poolVars, dpc, reqID, req, otherVars, ctxVars, wq, werr, readerVars, superVars, sinkVars, peerVars>>

\* A writer goroutine that writes its error to the stderr pipe by itself.
WriterWritesError(c) ==
  /\ wpc[c] = "send"
  /\ ~pclosed[c] /\ ~wtDone[c]
  /\ sinkErr' = [sinkErr EXCEPT ![c] = Append(@, Datum(werr[c], reqID[c], 0))]
  /\ wpc' = [wpc EXCEPT ![c] = "done"]
  /\ wg' = [wg EXCEPT ![c] = @ - 1]
  /\ UNCHANGED <<poolVars, dpc, reqID, req, otherVars, ctxVars, nfault, wlog, wq,
                 werr, readerVars, superVars, sinkOut, wtDone, peerVars>>

\* rwError <- err, received by the supervisor's select; then wg.Done().
WriterSend(c) ==
  /\ wpc[c] = "send"
  /\ spc[c] = "select"
  /\ serr' = [serr EXCEPT ![c] = werr[c]]
  /\ spc' = [spc EXCEPT ![c] = "write"]
  /\ wpc' = [wpc EXCEPT ![c] = "done"]
  /\ wg' = [wg EXCEPT ![c] = @ - 1]
  /\ UNCHANGED <<poolVars, dpc, reqID, req, otherVars, ctxVars, nfault, wlog, wq,
                 werr, readerVars, nrel, pclosed, sinkVars, peerVars>>

\* ------------------------------------------------------------------- reader
\* readResponse's select takes <-ctx.Done(): err = "timeout or canceled".
ReaderSelectCancel(c) ==
  /\ rpc[c] = "select"
  /\ ctxDone[c]
  /\ rerr' = [rerr EXCEPT ![c] = CancelErr]
  /\ rpc' = [rpc EXCEPT ![c] = "send"]
  /\ UNCHANGED <<poolVars, dpc, reqID, req, otherVars, ctxVars, writerVars, nfault, ipc, irec,
                 wg, superVars, sinkVars, peerVars>>

\* The read loop has left its loop and closed done.
loopClosedDone(pc) == pc \in {"ended", "failed"}

\* readResponse's select takes <-done and returns nil; then wg.Done().
ReaderSelectDone(c) ==
  /\ rpc[c] = "select"
  /\ loopClosedDone(ipc[c])
  /\ rpc' = [rpc EXCEPT ![c] = "done"]
  /\ wg' = [wg EXCEPT ![c] = @ - 1]
  /\ UNCHANGED <<poolVars, dpc, reqID, req, otherVars, ctxVars, writerVars, nfault, rerr, ipc,
                 irec, superVars, sinkVars, peerVars>>

\* A reader goroutine whose send completes without the supervisor: the
\* error stays in the channel.
ReaderSendUnreceived(c) ==
  /\ rpc[c] = "send"
  /\ rpc' = [rpc EXCEPT ![c] = "done"]
  /\ wg' = [wg EXCEPT ![c] = @ - 1]
  /\ UNCHANGED <<poolVars, dpc, reqID, req, otherVars, ctxVars, writerVars, nfault, rerr, ipc,
                 irec, superVars, sinkVars, peerVars>>

\* rwError <- err, received by the supervisor's select; then wg.Done().
ReaderSend(c) ==
  /\ rpc[c] = "send"
  /\ spc[c] = "select"
  /\ serr' = [serr EXCEPT ![c] = rerr[c]]
  /\ spc' = [spc EXCEPT ![c] = "write"]
  /\ rpc' = [rpc EXCEPT ![c] = "done"]
  /\ wg' = [wg EXCEPT ![c] = @ - 1]
  /\ UNCHANGED <<poolVars, dpc, reqID, req, otherVars, ctxVars, writerVars, nfault, rerr, ipc,
                 irec, nrel, pclosed, sinkVars, peerVars>>

\* A dispatch that leaves the loop on a record of an unexpected type.
dispatchPcFatal(rec) ==
  IF ~recordReadOK(rec) THEN "failed"
  ELSE IF rec.type = typeStdout THEN "wout"
  ELSE IF rec.type = typeStderr THEN "werr"
  ELSE IF rec.type = typeEndRequest THEN "ended"
  ELSE "failed"

\* The read loop's dispatch on rec.h.Type, the request id is not looked at:
\* the next position of the loop.
dispatchPc(rec) ==
  IF ~recordReadOK(rec) THEN "failed"
  ELSE IF rec.type = typeStdout THEN "wout"
  ELSE IF rec.type = typeStderr THEN "werr"
  ELSE IF rec.type = typeEndRequest THEN "ended"
  ELSE "werr"

\* What the loop writes to the pipe for the record.
dispatchDatum(rec) ==
  IF ~recordReadOK(rec) \/ rec.type = typeEndRequest THEN NoDatum
  ELSE IF rec.type \in {typeStdout, typeStderr}
  THEN Datum(rec.text, rec.id, rec.seq)
  ELSE Datum(UnexpectedDiag, rec.id, rec.seq)

\* rec.read(c.conn.rwc) in the read loop of call c: the next record of the
\* transport, whichever request it belongs to.  An error leaves the loop and
\* closes done; the error itself is dropped.
InnerRead(c) ==
  /\ ipc[c] = "read"
  /\ inbox # <<>>
  /\ inbox' = Tail(inbox)
  /\ ipc' = [ipc EXCEPT ![c] = dispatchPc(Head(inbox))]
  /\ irec' = [irec EXCEPT ![c] = dispatchDatum(Head(inbox))]
  /\ UNCHANGED <<poolVars, dpc, reqID, req, otherVars, ctxVars, writerVars, nfault, rpc, rerr,
                 wg, superVars, sinkVars, pend, njunk>>

\* writeResponse has returned an error before the end of the stdout stream:
\* it has read a line it rejects.  Nothing reads stdOutReader from then on.
parserReturned(out) ==
  \E i \in 1..Len(out) : out[i].text \in {BogusLine, LongLine}

\* pipe.Write returns once the reader has taken every byte or the pipe is
\* closed: the part of a record behind the first 1024 bytes of a long line is
\* never taken.
writeReturns(d, closed) == closed \/ d.text # LongLine

\* resp.stdOutWriter.Write / resp.stdErrWriter.Write in the read loop: the
\* consumer reads the data, or the pipe is closed and Write returns an error
\* that is dropped.
InnerWrite(c) ==
  /\ ipc[c] \in {"wout", "werr"}
  /\ pclosed[c] \/ ~wtDone[c]
  /\ pclosed[c] \/ ipc[c] = "werr" \/ ~parserReturned(sinkOut[c])
  /\ ipc' = [ipc EXCEPT ![c] =
               IF writeReturns(irec[c], pclosed[c]) THEN "read" ELSE @]
  /\ irec' = [irec EXCEPT ![c] =
                IF writeReturns(irec[c], pclosed[c]) THEN NoDatum ELSE @]
  /\ sinkOut' = [sinkOut EXCEPT ![c] =
                   IF ~pclosed[c] /\ ipc[c] = "wout" THEN Append(@, irec[c]) ELSE @]
  /\ sinkErr' = [sinkErr EXCEPT ![c] =
                   IF ~pclosed[c] /\ ipc[c] = "werr" THEN Append(@, irec[c]) ELSE @]
  /\ UNCHANGED <<poolVars, dpc, reqID, req, otherVars, ctxVars, writerVars, nfault, rpc, rerr,
                 wg, superVars, wtDone, peerVars>>

\* --------------------------------------------------------------- supervisor
\* go func() { wg.Wait(); close(allDone) }(): allDone is closed once the
\* counter set by wg.Add(2) is back at zero.
allDoneAtOne(n) == n <= 1
allDoneClosed(n) == n = 0

\* What the supervisor writes for an error received from rwError:
\* []byte(err.Error()).
errDatum(err, id) == Datum(err, id, 0)

\* resp.stdErrWriter.Write([]byte(err.Error())), read by the consumer.
SupWrite(c) ==
  /\ spc[c] = "write"
  /\ ~pclosed[c] /\ ~wtDone[c]
  /\ sinkErr' = [sinkErr EXCEPT ![c] = Append(@, errDatum(serr[c], reqID[c]))]
  /\ serr' = [serr EXCEPT ![c] = NoErr]
  /\ spc' = [spc EXCEPT ![c] = "select"]
  /\ UNCHANGED <<poolVars, dpc, reqID, req, otherVars, ctxVars, writerVars, nfault, readerVars,
                 wg, nrel, pclosed, sinkOut, wtDone, peerVars>>

\* The select takes <-allDone: c.ids.Release(reqID), resp.Close(),
\* close(rwError).
SupFinish(c) ==
  /\ spc[c] = "select"
  /\ allDoneClosed(wg[c])
  /\ released' = Release(released, reqID[c])
  /\ nrel' = [nrel EXCEPT ![c] = @ + 1]
  /\ pclosed' = [pclosed EXCEPT ![c] = TRUE]
  /\ spc' = [spc EXCEPT ![c] = "done"]
  /\ UNCHANGED <<limit, feed, dpc, reqID, req, otherVars, ctxVars, writerVars, nfault,
                 readerVars, wg, serr, sinkVars, peerVars>>

\* ------------------------------------------------------------- environment
\* The consumer's WriteTo: both copies reach EOF once the pipes are closed.
WriteToReturn(c) ==
  /\ pclosed[c]
  /\ ~wtDone[c]
  /\ wtDone' = [wtDone EXCEPT ![c] = TRUE]
  /\ UNCHANGED <<poolVars, dpc, reqID, req, otherVars, ctxVars, writerVars, nfault, readerVars,
                 wg, superVars, sinkOut, sinkErr, peerVars>>

\* The caller's context is cancelled while readResponse is in its select (a
\* cancellation after readResponse has returned is seen by nobody).
Cancel(c) ==
  /\ rpc[c] = "select"
  /\ ~ctxDone[c]
  /\ ncancel > 0
  /\ ncancel' = ncancel - 1
  /\ ctxDone' = [ctxDone EXCEPT ![c] = TRUE]
  /\ preEnd' = [preEnd EXCEPT ![c] = ipc[c] # "ended"]
  /\ UNCHANGED <<poolVars, dpc, reqID, req, otherVars, writerVars, nfault, readerVars, wg, superVars, sinkVars, peerVars>>

\* The peer has received the BeginRequest of call c.
PeerKnows(c) ==
  \E i \in 1..Len(wlog[c]) :
    wlog[c][i].type = typeBeginRequest /\ wlog[c][i].ok

\* The peer sends a record for the request of call c.
PeerSend(c) ==
  /\ PeerKnows(c)
  /\ ~pend[c]
  /\ njunk > 0
  /\ Len(inbox) < InboxCap
  /\ \E sh \in PeerShapes :
       inbox' = Append(inbox, PeerRec(sh.version, sh.type, reqID[c], sh.trunc,
                                      njunk, sh.text))
  /\ njunk' = njunk - 1
  /\ UNCHANGED <<poolVars, dpc, reqID, req, otherVars, ctxVars, writerVars, nfault, readerVars,
                 wg, superVars, sinkVars, pend>>

\* The peer sends a Stdout record that the CGI parser rejects.
PeerSendMalformed(c) ==
  /\ PeerKnows(c)
  /\ ~pend[c]
  /\ njunk > 0
  /\ Len(inbox) < InboxCap
  /\ \E sh \in MalformedShapes :
       inbox' = Append(inbox, PeerRec(sh.version, sh.type, reqID[c], sh.trunc,
                                      njunk, sh.text))
  /\ njunk' = njunk - 1
  /\ UNCHANGED <<poolVars, dpc, reqID, req, otherVars, ctxVars, writerVars, nfault, readerVars,
                 wg, superVars, sinkVars, pend>>

\* The peer sends EndRequest for the request of call c.
PeerEnd(c) ==
  /\ PeerKnows(c)
  /\ ~pend[c]
  /\ Len(inbox) < InboxCap
  /\ inbox' = Append(inbox, PeerRec(1, typeEndRequest, reqID[c], FALSE, 0, ""))
  /\ pend' = [pend EXCEPT ![c] = TRUE]
  /\ UNCHANGED <<poolVars, dpc, reqID, req, otherVars, ctxVars, writerVars, nfault, readerVars,
                 wg, superVars, sinkVars, njunk>>

\* --------------------------------------------------------------------- Next
Next ==
  \E c \in Calls :
    \/ DoAllocFeeder(c)
    \/ DoAllocReleased(c)
    \/ WriterBegin(c)
    \/ WriterPairs(c)
    \/ WriterStdin(c)
    \/ WriterAbort(c)
    \/ WriterSend(c)
    \/ ReaderSelectCancel(c)
    \/ ReaderSelectDone(c)
    \/ ReaderSend(c)
    \/ InnerRead(c)
    \/ InnerWrite(c)
    \/ SupWrite(c)
    \/ SupFinish(c)
    \/ WriteToReturn(c)
    \/ Cancel(c)
    \/ PeerSend(c)
    \/ PeerEnd(c)

Spec == Init /\ [][Next]_vars

SpecWriter == InitWriter /\ [][Next]_vars

\* Every goroutine that can take a step eventually does; the consumer keeps
\* reading both pipes; the peer sends EndRequest for every request it has
\* received and whose context is not cancelled.  Nothing obliges the caller
\* to cancel or the peer to send anything else.
Fairness ==
  \A c \in Calls :
    /\ WF_vars(DoAllocFeeder(c))
    /\ WF_vars(DoAllocReleased(c))
    /\ WF_vars(WriterBegin(c))
    /\ WF_vars(WriterPairs(c))
    /\ WF_vars(WriterStdin(c))
    /\ WF_vars(WriterAbort(c))
    /\ WF_vars(WriterSend(c))
    /\ WF_vars(ReaderSelectCancel(c))
    /\ WF_vars(ReaderSelectDone(c))
    /\ WF_vars(ReaderSend(c))
    /\ WF_vars(InnerRead(c))
    /\ WF_vars(InnerWrite(c))
    /\ WF_vars(SupWrite(c))
    /\ WF_vars(SupFinish(c))
    /\ WF_vars(WriteToReturn(c))
    /\ WF_vars(~ctxDone[c] /\ PeerEnd(c))

FairSpec == InitFair /\ [][Next]_vars /\ Fairness

SpecReader == InitReader /\ [][Next]_vars

\* As FairSpec, with a peer whose stdout the CGI parser may reject.
NextParser ==
  \/ Next
  \/ \E c \in Calls : PeerSendMalformed(c)

FairParser == InitFair /\ [][NextParser]_vars /\ Fairness

\* ------------------------------------------------------------- CGI parser
\* A line of the header section as writeResponse tells lines apart: kind
\* "Status", "Location", "Content-Type" or "other" for a line with a colon
\* (the trimmed name before the first colon, val the trimmed text after it),
\* "nocolon" for a line without one, "long" for a line that does not fit
\* the 1024-byte bufio.Reader.  val is a sequence of characters.
HeaderLine(kind, val) == [kind |-> kind, val |-> val]

Digits == <<"0", "1", "2", "3", "4", "5", "6", "7", "8", "9">>
IsDigit(ch) == \E i \in 1..10 : Digits[i] = ch
DigitVal(ch) == (CHOOSE i \in 1..10 : Digits[i] = ch) - 1

\* strconv.Atoi of a string of three characters: [ok, n].
Atoi3(t) ==
  IF IsDigit(t[1]) /\ IsDigit(t[2]) /\ IsDigit(t[3])
  THEN [ok |-> TRUE,
        n |-> 100 * DigitVal(t[1]) + 10 * DigitVal(t[2]) + DigitVal(t[3])]
  ELSE IF t[1] \in {"+", "-"} /\ IsDigit(t[2]) /\ IsDigit(t[3])
  THEN [ok |-> TRUE,
        n |-> (IF t[1] = "-" THEN -1 ELSE 1)
                * (10 * DigitVal(t[2]) + DigitVal(t[3]))]
  ELSE [ok |-> FALSE, n |-> 0]

\* What writeResponse did: whether it called w.WriteHeader and with which
\* status, and the error it returned.
Response(written, status, err) ==
  [written |-> written, status |-> status, err |-> err]

\* if statusCode == 0 { statusCode = http.StatusFound } for a Location.
foundAlways(statusCode) == 302
foundIfUnset(statusCode) == IF statusCode = 0 THEN 302 ELSE statusCode

\* The header loop of writeResponse on the lines before the blank line or
\* EOF.  h: statusCode, headerLines, and headers.Get of Location and of
\* Content-Type (the first value added, "" when none was).  fail is the
\* Response of a return inside the loop.
RECURSIVE headerLoop(_, _)
headerLoop(lines, h) ==
  IF lines = <<>> THEN h
  ELSE LET l == Head(lines) IN
    IF l.kind = "long"
    THEN [h EXCEPT !.fail = Response(TRUE, 500, "long header line"),
                   !.failed = TRUE]
    ELSE IF l.kind = "nocolon"
    THEN [h EXCEPT !.fail = Response(FALSE, 0, "bogus header line"),
                   !.failed = TRUE]
    ELSE IF l.kind = "Status"
    THEN IF Len(l.val) < 3
         THEN [h EXCEPT !.fail = Response(FALSE, 0, "bogus status (short)"),
                        !.failed = TRUE]
         ELSE IF ~Atoi3(SubSeq(l.val, 1, 3)).ok
         THEN [h EXCEPT !.fail = Response(FALSE, 0, "bogus status"),
                        !.failed = TRUE]
         ELSE headerLoop(Tail(lines),
                [h EXCEPT !.statusCode = Atoi3(SubSeq(l.val, 1, 3)).n,
                          !.headerLines = @ + 1])
    ELSE headerLoop(Tail(lines),
           [h EXCEPT !.headerLines = @ + 1,
                     !.loc = IF l.kind = "Location" /\ ~h.hasLoc
                             THEN l.val ELSE @,
                     !.hasLoc = @ \/ l.kind = "Location",
                     !.ct = IF l.kind = "Content-Type" /\ ~h.hasCt
                            THEN l.val ELSE @,
                     !.hasCt = @ \/ l.kind = "Content-Type"])

\* writeResponse on a stdout that holds the given header lines, then a blank
\* line and a body (sawBlankLine) or EOF.
writeResponse(lines, sawBlankLine) ==
  LET h == headerLoop(lines,
             [statusCode |-> 0, headerLines |-> 0, loc |-> <<>>,
              hasLoc |-> FALSE, ct |-> <<>>, hasCt |-> FALSE,
              failed |-> FALSE, fail |-> Response(FALSE, 0, "nil")])
      statusCode == IF h.loc # <<>> THEN foundIfUnset(h.statusCode)
                    ELSE h.statusCode
  IN  IF h.failed THEN h.fail
      ELSE IF h.headerLines = 0 \/ ~sawBlankLine
      THEN Response(TRUE, 500, "no headers")
      ELSE IF statusCode = 0 /\ h.ct = <<>>
      THEN Response(TRUE, 500, "missing required Content-Type in headers")
      ELSE IF statusCode = 0 THEN Response(TRUE, 200, "nil")
      ELSE Response(TRUE, statusCode, "nil")

\* The sink's header map and writeResponse's local headers: http.Header,
\* the values of each key in the order they were added.
Keys == {"Location", "Content-Type", "other"}
NoHeader == [k \in Keys |-> <<>>]

\* http.Header.Add.
headerSet(hd, k, v) == [hd EXCEPT ![k] = <<v>>]
headerAdd(hd, k, v) == [hd EXCEPT ![k] = Append(@, v)]

\* headers after the header loop has gone through the lines: headers.Add
\* for every line that is not a Status line.
RECURSIVE headersOf(_, _)
headersOf(lines, hd) ==
  IF lines = <<>> THEN hd
  ELSE headersOf(Tail(lines),
         IF Head(lines).kind \in Keys
         THEN headerAdd(hd, Head(lines).kind, Head(lines).val) ELSE hd)

\* A call writeResponse makes on the http.ResponseWriter.
Call(fn, key, val, code) == [fn |-> fn, key |-> key, val |-> val, code |-> code]

\* for k, vv := range headers { for _, v := range vv { w.Header().Add(k, v) } }
\* with range taking the keys in the given order.
RECURSIVE rangeCalls(_, _)
rangeCalls(hd, order) ==
  IF order = <<>> THEN <<>>
  ELSE LET k == Head(order)
       IN [i \in 1..Len(hd[k]) |-> Call("Header.Add", k, hd[k][i], 0)]
            \o rangeCalls(hd, Tail(order))

\* The orders range may take the keys of the map in.
KeyOrders(hd) ==
  LET ks == { k \in Keys : hd[k] # <<>> }
  IN { o \in [1..Cardinality(ks) -> ks] :
         \A i, j \in 1..Cardinality(ks) : i # j => o[i] # o[j] }

\* The calls of writeResponse on w, in order: w.WriteHeader(500) on the
\* failures that write it; otherwise the header copy, w.WriteHeader and
\* io.Copy(w, linebody).
sinkCalls(lines, sawBlankLine, order) ==
  LET r == writeResponse(lines, sawBlankLine)
  IN  IF r.err # "nil"
      THEN IF r.written THEN <<Call("WriteHeader", "", <<>>, r.status)>> ELSE <<>>
      ELSE rangeCalls(headersOf(lines, NoHeader), order)
             \o <<Call("WriteHeader", "", <<>>, r.status),
                  Call("Copy", "", <<>>, 0)>>

\* The sink's header map after the calls.
RECURSIVE sinkHeader(_, _)
sinkHeader(hd, calls) ==
  IF calls = <<>> THEN hd
  ELSE sinkHeader(IF Head(calls).fn = "Header.Add"
                  THEN headerAdd(hd, Head(calls).key, Head(calls).val) ELSE hd,
                  Tail(calls))

\* ------------------------------------------------------- single functions
\* writeRecord is called with every body length a record can have, and
\* with several types and request ids.
WriteRecordArgs ==
  { [op |-> "writeRecord", recType |-> typeStdin, reqID |-> 1, len |-> n] :
      n \in 0..65535 }
  \cup
  { [op |-> "writeRecord", recType |-> t, reqID |-> i, len |-> n] :
      t \in {typeBeginRequest, typeAbortRequest, typeParams},
      i \in {0, 65535}, n \in {0, 1, 7, 8, 9, 65535} }

\* Sizes around the one-byte limit, around the byte boundaries, the largest
\* size of 31 bits.
Sizes ==
  (0..300) \cup {65535, 65536, 65537, 16777215, 16777216, 16777217,
                 2147483646, 2147483647}

EncodeSizeArgs == { [op |-> "encodeSize", size |-> n] : n \in Sizes }

\* readSize is called on an encoded size followed by other bytes, on the
\* empty slice, and on slices of 1 to 3 bytes that start with any byte.
ReadSizeArgs ==
  { [op |-> "readSize", s |-> encodeSizeBytes(n) \o t] :
      n \in Sizes, t \in {<<>>, <<200>>} }
  \cup
  { [op |-> "readSize", s |-> t] :
      t \in {<<>>} \cup { <<b>> \o u : b \in {0, 1, 127, 128, 129, 255},
                                        u \in {<<>>, <<1>>, <<1, 2>>} } }

\* Lengths of single Write calls: below, at and above the buffer size.
WriteLens == {1, 2, maxWrite, maxWrite + 1, 2 * maxWrite + 1}

\* Up to three Write calls of those lengths, and ten Write calls of one
\* byte, on a writer of type Stdin or Params.
StreamArgs ==
  { [op |-> "stream", recType |-> t, reqID |-> 1, writes |-> w] :
      t \in {typeParams, typeStdin},
      w \in {<<>>} \cup { <<a>> : a \in WriteLens }
             \cup { <<a, b>> : a, b \in WriteLens }
             \cup { <<a, b, c>> : a, b, c \in WriteLens }
             \cup { [i \in 1..10 |-> 1] } }

\* Header lines: Status values that are numeric (one of them 000, one with
\* a reason phrase), too short, and not numeric; Location and Content-Type
\* with an empty and a non-empty value; another header; a line without a
\* colon; a line longer than the reader's buffer.
HeaderLines ==
  { HeaderLine("Status", v) :
      v \in { <<"2", "0", "0">>, <<"4", "0", "4", " ", "N">>,
              <<"0", "0", "0">>, <<"4", "0">>, <<>>, <<"4", "x", "4">> } }
  \cup { HeaderLine(k, v) : k \in {"Location", "Content-Type"},
                            v \in {<<>>, <<"v">>} }
  \cup { HeaderLine("other", <<"v">>), HeaderLine("nocolon", <<>>),
         HeaderLine("long", <<>>) }

\* The stdouts writeResponse is called on: up to three header lines, then a
\* blank line or EOF.
WriteResponseArgs ==
  { [op |-> "writeResponse", lines |-> ls, sawBlankLine |-> b] :
      ls \in {<<>>} \cup { <<x>> : x \in HeaderLines }
              \cup { <<x, y>> : x, y \in HeaderLines }
              \cup { <<x, y, z>> : x, y, z \in HeaderLines },
      b \in BOOLEAN }

\* Header lines with values that tell duplicates apart.
SinkLines ==
  { HeaderLine("Status", <<"2", "0", "1">>), HeaderLine("Status", <<"4", "0">>),
    HeaderLine("Location", <<"l">>),
    HeaderLine("Content-Type", <<"a">>), HeaderLine("Content-Type", <<"b">>),
    HeaderLine("other", <<"v">>), HeaderLine("other", <<"w">>),
    HeaderLine("nocolon", <<>>), HeaderLine("long", <<>>) }

\* writeResponse on a ResponseWriter whose header map is empty or already
\* holds values.
SinkArgs ==
  { [op |-> "writeResponse.sink", lines |-> ls, sawBlankLine |-> b, sink |-> hd] :
      ls \in {<<>>} \cup { <<x>> : x \in SinkLines }
              \cup { <<x, y>> : x, y \in SinkLines }
              \cup { <<x, y, z>> : x, y, z \in SinkLines },
      b \in BOOLEAN,
      hd \in {NoHeader, headerAdd(headerAdd(NoHeader, "Content-Type", <<"old">>),
                                  "other", <<"old">>)} }

UnitArgs ==
  WriteRecordArgs \cup EncodeSizeArgs \cup ReadSizeArgs \cup StreamArgs
    \cup WriteResponseArgs \cup SinkArgs

\* One function is about to be called; no Do call is made.
InitUnit ==
  /\ InitBase
  /\ limit = 1
  /\ req = [c \in Calls |-> EmptyRequest]
  /\ nfault = 0
  /\ arg \in UnitArgs
  /\ ret = [op |-> "none"]
  /\ upc = "call"
  /\ RecordIdle
  /\ CloseIdle

\* The call returns v.
UnitReturn(v) ==
  /\ upc = "call"
  /\ ret' = v
  /\ upc' = "returned"
  /\ UNCHANGED <<arg, doVars, recVars, closeVars>>

UnitWriteRecord ==
  /\ arg.op = "writeRecord"
  /\ UnitReturn(writeRecord(arg.recType, arg.reqID, arg.len))

UnitEncodeSize ==
  /\ arg.op = "encodeSize"
  /\ UnitReturn([n |-> encodeSize(arg.size), b |-> encodeSizeBytes(arg.size)])

UnitReadSize ==
  /\ arg.op = "readSize"
  /\ UnitReturn(readSize(arg.s))

\* The records of a stream writer of arg.recType and arg.reqID: every
\* writeRecord of streamWriter.Write and streamWriter.Close is called with
\* w.recType and w.reqID.
UnitStream ==
  /\ arg.op = "stream"
  /\ LET items == writesThenClose(arg.writes, 0)
     IN  UnitReturn([i \in 1..Len(items) |->
                      [type |-> arg.recType, id |-> arg.reqID,
                       len |-> items[i].len]])

UnitWriteResponse ==
  /\ arg.op = "writeResponse"
  /\ UnitReturn(writeResponse(arg.lines, arg.sawBlankLine))

\* writeResponse seen from its ResponseWriter; range picks the order of the
\* keys.
UnitWriteResponseSink ==
  /\ arg.op = "writeResponse.sink"
  /\ \E order \in KeyOrders(headersOf(arg.lines, NoHeader)) :
       LET calls == sinkCalls(arg.lines, arg.sawBlankLine, order)
       IN  UnitReturn([resp |-> writeResponse(arg.lines, arg.sawBlankLine),
                       calls |-> calls,
                       header |-> sinkHeader(arg.sink, calls)])

NextUnit ==
  \/ UnitWriteRecord
  \/ UnitWriteResponse
  \/ UnitWriteResponseSink
  \/ UnitStream
  \/ UnitEncodeSize
  \/ UnitReadSize

SpecUnit == InitUnit /\ [][NextUnit]_vars

\* ------------------------------------------------------------ client.Close
\* Do calls that start at the c.conn == nil test, on a pool of one id.
InitClose ==
  /\ dpc = [c \in Calls |-> "enter"]
  /\ InitGoroutines
  /\ njunk = MaxJunk
  /\ limit = 1
  /\ req = [c \in Calls |-> EmptyRequest]
  /\ nfault = MaxFaults
  /\ UnitIdle
  /\ RecordIdle
  /\ CloseIdle

\* c.conn == nil.
connNeverNil(isNil) == FALSE
connIsNil(isNil) == isNil

\* Do up to c.ids.Alloc(): with c.conn == nil it returns (nil, "client
\* connection has been closed").
DoCheck(c) ==
  /\ dpc[c] = "enter"
  /\ dpc' = [dpc EXCEPT ![c] =
               IF connIsNil(connNil) THEN "refused" ELSE "alloc"]
  /\ UNCHANGED <<poolVars, reqID, req, ctxVars, writerVars, nfault,
                 readerVars, wg, superVars, sinkVars, peerVars, otherVars>>

\* No goroutine of a Do call is left that would read c.conn: Close writes
\* c.conn without synchronisation, so the caller calls it between requests.
Quiescent ==
  \A c \in Calls :
    \/ dpc[c] \in {"enter", "refused"}
    \/ dpc[c] = "started" /\ spc[c] = "done" /\ loopClosedDone(ipc[c])

\* client.Close: nil when c.conn is nil; otherwise err = c.conn.Close(),
\* c.conn = nil, and err (nil or the transport's error) is returned.
closeConn ==
  IF connIsNil(connNil)
  THEN /\ closeRets' = Append(closeRets, NoErr)
       /\ UNCHANGED <<connNil, nclose>>
  ELSE /\ nclose' = nclose + 1
       /\ connNil' = TRUE
       /\ \E err \in {NoErr, "close error"} :
            closeRets' = Append(closeRets, err)

ClientClose ==
  /\ Len(closeRets) < MaxCloses
  /\ Quiescent
  /\ closeConn
  /\ UNCHANGED <<doVars, unitVars, recVars>>

NextClose ==
  \/ Next
  \/ ClientClose
  \/ \E c \in Calls : DoCheck(c)

SpecClose == InitClose /\ [][NextClose]_vars

\* ------------------------------------------- client.Close during a request
\* A nil pointer dereference in a goroutine ends the process.
Crashed == \E c \in Calls : wpc[c] = "panic" \/ ipc[c] = "panic"

\* client.Close while goroutines of a Do call run.  Close writes c.conn
\* without synchronisation and the goroutines read it: a goroutine that
\* evaluates c.conn after the write gets nil, or (the read races with the
\* write) the pointer to the closed conn.
ClientCloseInFlight ==
  /\ ~Crashed
  /\ Len(closeRets) < MaxCloses
  /\ ~Quiescent
  /\ closeConn
  /\ UNCHANGED <<doVars, unitVars, recVars>>

\* c.conn.writeBeginRequest, c.conn.writePairs, the writes of
\* newWriter(c.conn, ...) and the deferred c.conn.writeAbortRequest with
\* c.conn == nil: writeRecord locks c.mutex through the nil pointer.
WriterNilDeref(c) ==
  /\ ~Crashed
  /\ connNil
  /\ wpc[c] \in {"begin", "pairs", "stdin", "abort"}
  /\ wpc' = [wpc EXCEPT ![c] = "panic"]
  /\ UNCHANGED <<poolVars, dpc, reqID, req, otherVars, ctxVars, wlog, wq, werr,
                 nfault, readerVars, wg, superVars, sinkVars, peerVars>>

\* rec.read(c.conn.rwc) in the read loop with c.conn == nil.
InnerNilDeref(c) ==
  /\ ~Crashed
  /\ connNil
  /\ ipc[c] = "read"
  /\ ipc' = [ipc EXCEPT ![c] = "panic"]
  /\ UNCHANGED <<poolVars, dpc, reqID, req, otherVars, ctxVars, writerVars, nfault,
                 rpc, rerr, irec, wg, superVars, sinkVars, peerVars>>

\* rec.read on the closed transport (the loop was blocked in it when Close
\* ran, or has read the old c.conn): the read fails and the loop ends.
InnerReadClosed(c) ==
  /\ ~Crashed
  /\ connNil
  /\ ipc[c] = "read"
  /\ ipc' = [ipc EXCEPT ![c] = "failed"]
  /\ UNCHANGED <<poolVars, dpc, reqID, req, otherVars, ctxVars, writerVars, nfault,
                 rpc, rerr, irec, wg, superVars, sinkVars, peerVars>>

\* What the closed transport allows the other steps: every write to it
\* fails, nothing is read from it, and the peer's records no longer arrive.
OnClosedTransport ==
  connNil =>
    /\ \A c \in Calls :
         Len(wlog'[c]) > Len(wlog[c]) => ~wlog'[c][Len(wlog'[c])].ok
    /\ inbox' = inbox

NextRace ==
  \/ ~Crashed /\ Next /\ OnClosedTransport
  \/ ~Crashed /\ ClientClose
  \/ ClientCloseInFlight
  \/ \E c \in Calls :
       \/ ~Crashed /\ DoCheck(c)
       \/ WriterNilDeref(c)
       \/ InnerNilDeref(c)
       \/ InnerReadClosed(c)

SpecRace == InitClose /\ [][NextRace]_vars

\* ---------------------------------------------- writeRecord, step by step
\* The writer goroutines of the Do calls each call writeRecord MaxRecs
\* times.  The k-th record of goroutine t is <<t, k>>; what is in conn.buf
\* and in a transport write is a sequence of parts, each the header, the
\* body or the padding of a record.
Part(part, of) == [part |-> part, of |-> of]

InitRecord ==
  /\ InitBase
  /\ limit = 0
  /\ req = [c \in Calls |-> EmptyRequest]
  /\ nfault = 0
  /\ UnitIdle
  /\ RecordIdle
  /\ CloseIdle

\* c.mutex.Lock() succeeds.
mutexAlwaysFree(m) == TRUE
mutexFree(m) == m = 0

\* c.mutex.Lock().
RecLock(t) ==
  /\ tpc[t] = "idle"
  /\ tk[t] < MaxRecs
  /\ mutexFree(mutex)
  /\ mutex' = t
  /\ tpc' = [tpc EXCEPT ![t] = "reset"]
  /\ UNCHANGED <<connBuf, connH, rwc, tk, doVars, unitVars, closeVars>>

\* c.buf.Reset().
RecReset(t) ==
  /\ tpc[t] = "reset"
  /\ connBuf' = <<>>
  /\ tpc' = [tpc EXCEPT ![t] = "init"]
  /\ UNCHANGED <<mutex, connH, rwc, tk, doVars, unitVars, closeVars>>

\* c.h.init(recType, reqID, len(b)).
RecInit(t) ==
  /\ tpc[t] = "init"
  /\ connH' = <<t, tk[t] + 1>>
  /\ tpc' = [tpc EXCEPT ![t] = "header"]
  /\ UNCHANGED <<mutex, connBuf, rwc, tk, doVars, unitVars, closeVars>>

\* binary.Write(&c.buf, binary.BigEndian, c.h).
RecHeader(t) ==
  /\ tpc[t] = "header"
  /\ connBuf' = Append(connBuf, Part("header", connH))
  /\ tpc' = [tpc EXCEPT ![t] = "body"]
  /\ UNCHANGED <<mutex, connH, rwc, tk, doVars, unitVars, closeVars>>

\* c.buf.Write(b).
RecBody(t) ==
  /\ tpc[t] = "body"
  /\ connBuf' = Append(connBuf, Part("body", <<t, tk[t] + 1>>))
  /\ tpc' = [tpc EXCEPT ![t] = "pad"]
  /\ UNCHANGED <<mutex, connH, rwc, tk, doVars, unitVars, closeVars>>

\* c.buf.Write(pad[:c.h.PaddingLength]).
RecPad(t) ==
  /\ tpc[t] = "pad"
  /\ connBuf' = Append(connBuf, Part("pad", connH))
  /\ tpc' = [tpc EXCEPT ![t] = "write"]
  /\ UNCHANGED <<mutex, connH, rwc, tk, doVars, unitVars, closeVars>>

\* c.rwc.Write(c.buf.Bytes()).
RecWrite(t) ==
  /\ tpc[t] = "write"
  /\ rwc' = Append(rwc, connBuf)
  /\ tpc' = [tpc EXCEPT ![t] = "unlock"]
  /\ UNCHANGED <<mutex, connBuf, connH, tk, doVars, unitVars, closeVars>>

\* The deferred c.mutex.Unlock(); writeRecord returns.
RecUnlock(t) ==
  /\ tpc[t] = "unlock"
  /\ mutex' = 0
  /\ tk' = [tk EXCEPT ![t] = @ + 1]
  /\ tpc' = [tpc EXCEPT ![t] = "idle"]
  /\ UNCHANGED <<connBuf, connH, rwc, doVars, unitVars, closeVars>>

NextRecord ==
  \E t \in Calls :
    \/ RecLock(t)
    \/ RecReset(t)
    \/ RecInit(t)
    \/ RecHeader(t)
    \/ RecBody(t)
    \/ RecPad(t)
    \/ RecWrite(t)
    \/ RecUnlock(t)

SpecRecord == InitRecord /\ [][NextRecord]_vars

\* ------------------------------------------------------------- properties
\* Call c owns its reqID: Alloc has returned it and the supervisor has not
\* yet called Release.
Holds(c) == dpc[c] = "started" /\ nrel[c] = 0

\* C1: every request id has at most one owner.  Two calls that hold an id
\* hold different ids; an id waiting in a Release goroutine waits in exactly
\* one, is held by no call, and has been handed out by the feeder before; an
\* id that is held has been handed out by the feeder before.
UniqueOwner ==
  /\ \A c1, c2 \in Calls :
       (c1 # c2 /\ Holds(c1) /\ Holds(c2)) => reqID[c1] # reqID[c2]
  /\ \A id \in BagToSet(released) :
       /\ CopiesIn(id, released) = 1
       /\ id < feed
       /\ \A c \in Calls : Holds(c) => reqID[c] # id
  /\ \A c \in Calls : Holds(c) => reqID[c] < feed

\* A pool of one id: the second call holds the id the first one released.
UniqueOwnerWitness ==
  \E c1, c2 \in Calls :
    /\ c1 # c2
    /\ limit = 1
    /\ nrel[c1] = 1
    /\ Holds(c2)
    /\ reqID[c2] = reqID[c1]

\* C2: Release is called at most once per Do call, and only after both
\* writeRequest and readResponse have returned and their goroutines have
\* called wg.Done.
ReleaseOnceAfterBoth ==
  \A c \in Calls :
    /\ nrel[c] <= 1
    /\ nrel[c] = 1 => (wpc[c] = "done" /\ rpc[c] = "done" /\ wg[c] = 0)

\* A call whose writer failed and whose reader was cancelled has released.
ReleaseOnceAfterBothWitness ==
  \E c \in Calls :
    /\ nrel[c] = 1
    /\ werr[c] = WriteErr
    /\ rerr[c] = CancelErr

\* C3: under FairSpec (every transport write succeeds, the peer sends
\* EndRequest unless the context is cancelled, the consumer reads both pipes)
\* every call that returned a ResponsePipe eventually has its id released and
\* both pipe writers closed.
EventuallyReleased ==
  \A c \in Calls : (dpc[c] = "started") ~> (nrel[c] = 1 /\ pclosed[c])

\* C4: no record the writer hands to writeRecord carries request id 0.
NoZeroRequestID ==
  \A c \in Calls : \A i \in 1..Len(wlog[c]) : wlog[c][i].id # 0

\* Record content a pipe of call c has delivered comes from records the peer
\* sent for c's request id.
OwnContent(c, sink) ==
  \A i \in 1..Len(sink) : sink[i].text = "content" => sink[i].id = reqID[c]

\* C5: each call's pipes receive only the Stdout/Stderr content of the
\* records the peer sent for that call's own request id.
OwnRecordsOnly ==
  \A c \in Calls : OwnContent(c, sinkOut[c]) /\ OwnContent(c, sinkErr[c])

\* The records of call c's log of the given type.
RecsOfType(c, t) == { i \in 1..Len(wlog[c]) : wlog[c][i].type = t }

StreamsTerminated ==
  \A c \in Calls :
    wpc[c] \in {"abort", "send", "done"} =>
      \A t \in {typeParams, typeStdin} :
        RecsOfType(c, t) # {} =>
          \E i \in RecsOfType(c, t) : wlog[c][i].len = 0

\* The supervisor has received err from rwError and is writing it, or the
\* consumer has read it from the stderr pipe.
Reported(c, err) ==
  \/ spc[c] = "write" /\ serr[c] = err
  \/ \E i \in 1..Len(sinkErr[c]) : sinkErr[c][i].text = err

\* C8: at most one AbortRequest per call, for the call's request id; an
\* AbortRequest is only written after a failure; once writeRequest has
\* returned an error, exactly one AbortRequest has been attempted and it is
\* the last record of the call; once the writer goroutine is done the error
\* has been received by the supervisor, and it is in the stderr pipe's sink
\* before the pipes are closed; a writeRequest that returned nil wrote no
\* AbortRequest.
AbortOnFailure ==
  \A c \in Calls :
    LET L == wlog[c]
        aborts == RecsOfType(c, typeAbortRequest) IN
    /\ Cardinality(aborts) <= 1
    /\ \A i \in aborts : L[i].id = reqID[c] /\ werr[c] # NoErr /\ i = Len(L)
    /\ (wpc[c] \in {"send", "done"} /\ werr[c] # NoErr) =>
         Cardinality(aborts) = 1
    /\ (wpc[c] = "done" /\ werr[c] # NoErr) => Reported(c, werr[c])
    /\ (pclosed[c] /\ werr[c] # NoErr) =>
         \E i \in 1..Len(sinkErr[c]) : sinkErr[c][i].text = werr[c]
    /\ (wpc[c] = "done" /\ werr[c] = NoErr) => aborts = {}

\* A call whose req.Stdin.Read failed has finished: one AbortRequest, the
\* error in the stderr sink.
AbortOnFailureWitness ==
  \E c \in Calls :
    /\ nrel[c] = 1
    /\ werr[c] = ReadErr
    /\ Cardinality(RecsOfType(c, typeAbortRequest)) = 1
    /\ \E i \in 1..Len(sinkErr[c]) : sinkErr[c][i].text = ReadErr

\* C9: when the read loop of a call has left on a failed rec.read and the
\* call's pipes are closed, the stderr sink holds a diagnostic for the
\* failure: a text other than record content, the unexpected-type
\* diagnostic, a writer error or the cancellation error.
ReadFailureReported ==
  \A c \in Calls :
    (pclosed[c] /\ ipc[c] = "failed") =>
      \E i \in 1..Len(sinkErr[c]) :
        sinkErr[c][i].text \notin
          {"content", UnexpectedDiag, WriteErr, ReadErr, CancelErr}

\* C10: a readResponse whose context was cancelled before the read loop had
\* read EndRequest returns "gofast: timeout or canceled".
CancelReported ==
  \A c \in Calls : (rpc[c] = "done" /\ preEnd[c]) => rerr[c] = CancelErr

\* The function called with op has returned.
Returned(op) == upc = "returned" /\ arg.op = op

\* C16: every record writeRecord produces has version 1, a content length
\* equal to the length of the body, a padding length in 0..7 that makes
\* content plus padding a multiple of 8, the type and id it was called with,
\* and a transport write of 8 + content + padding bytes.
WellFormedRecord ==
  Returned("writeRecord") =>
    /\ ret.h.Version = 1
    /\ ret.h.Type = arg.recType
    /\ ret.h.ID = arg.reqID
    /\ ret.h.ContentLength = arg.len
    /\ ret.h.PaddingLength \in 0..7
    /\ (ret.h.ContentLength + ret.h.PaddingLength) % 8 = 0
    /\ ret.n = 8 + ret.h.ContentLength + ret.h.PaddingLength

\* The largest record: 65535 bytes of content and one byte of padding.
WellFormedRecordWitness ==
  /\ Returned("writeRecord")
  /\ arg.len = 65535
  /\ ret.h.PaddingLength = 1
  /\ ret.n = 65544

\* C17: encodeSize writes one byte, the size, for a size up to 127, and for
\* a larger size 4 bytes, the first with bit 7 set, that are the size in big
\* endian once that bit is cleared; readSize of what encodeSize wrote gives
\* the size and the number of bytes back; readSize gives (0, 0) for an empty
\* slice and for fewer than 4 bytes that start with bit 7 set.
SizeRoundTrip ==
  /\ Returned("encodeSize") =>
       /\ ret.n = Len(ret.b)
       /\ ret.n = (IF arg.size <= 127 THEN 1 ELSE 4)
       /\ arg.size <= 127 => ret.b = <<arg.size>>
       /\ arg.size > 127 =>
            /\ ret.b[1] >= 128
            /\ (ret.b[1] - 128) * 16777216 + ret.b[2] * 65536
                 + ret.b[3] * 256 + ret.b[4] = arg.size
       /\ readSize(ret.b) = [size |-> arg.size, n |-> ret.n]
       /\ readSize(ret.b \o <<255>>) = [size |-> arg.size, n |-> ret.n]
  /\ Returned("readSize") =>
       /\ Len(arg.s) = 0 => ret = [size |-> 0, n |-> 0]
       /\ (Len(arg.s) \in 1..3 /\ arg.s[1] >= 128) => ret = [size |-> 0, n |-> 0]
       /\ (Len(arg.s) >= 1 /\ arg.s[1] < 128) => ret = [size |-> arg.s[1], n |-> 1]
       /\ \A n \in Sizes :
            (Len(arg.s) >= Len(encodeSizeBytes(n))
               /\ SubSeq(arg.s, 1, Len(encodeSizeBytes(n))) = encodeSizeBytes(n))
            => ret = [size |-> n, n |-> encodeSize(n)]

\* The largest size has been read back from its 4 bytes.
SizeRoundTripWitness ==
  /\ Returned("readSize")
  /\ arg.s = <<255, 255, 255, 255>>
  /\ ret = [size |-> 2147483647, n |-> 4]

RECURSIVE SumSeq(_)
SumSeq(q) == IF q = <<>> THEN 0 ELSE Head(q) + SumSeq(Tail(q))

\* The least number of records of at most maxWrite bytes that hold n bytes.
Chunks(n) == (n + maxWrite - 1) \div maxWrite

\* What holds of the records of a stream whatever the Write calls were: the
\* last one is empty and no other is, none is longer than maxWrite, their
\* lengths add up to the bytes written, all carry the writer's type and id.
StreamShape ==
  /\ ret # <<>>
  /\ ret[Len(ret)].len = 0
  /\ \A i \in 1..(Len(ret) - 1) : ret[i].len \in 1..maxWrite
  /\ SumSeq([i \in 1..Len(ret) |-> ret[i].len]) = SumSeq(arg.writes)
  /\ \A i \in 1..Len(ret) : ret[i].type = arg.recType /\ ret[i].id = arg.reqID

\* C18 as stated: N bytes written by any sequence of Write calls, then
\* Close, give exactly ceil(N / maxWrite) + 1 records of that shape.
StreamRecordCount ==
  Returned("stream") =>
    /\ StreamShape
    /\ Len(ret) = Chunks(SumSeq(arg.writes)) + 1

\* C18 amended: the shape holds for any Write calls; the number of records
\* is ceil(N / maxWrite) + 1 when no single Write is longer than maxWrite,
\* and at least that otherwise.
StreamRecordCountBuffered ==
  Returned("stream") =>
    /\ StreamShape
    /\ Len(ret) >= Chunks(SumSeq(arg.writes)) + 1
    /\ (\A i \in 1..Len(arg.writes) : arg.writes[i] <= maxWrite) =>
         /\ Len(ret) = Chunks(SumSeq(arg.writes)) + 1
         /\ \A i \in 1..(Len(ret) - 2) : ret[i].len = maxWrite

\* Ten writes of one byte: full records, the rest, the empty record.
StreamRecordCountBufferedWitness ==
  /\ Returned("stream")
  /\ Len(arg.writes) = 10
  /\ Len(ret) = Chunks(10) + 1
  /\ ret[Len(ret) - 1].len = 10 - maxWrite * (Chunks(10) - 1)

\* C13: whenever writeResponse returns an error it has set the status of
\* the sink to 500.
ParserFailureSets500 ==
  (Returned("writeResponse") /\ ret.err # "nil") =>
    (ret.written /\ ret.status = 500)

\* The header lines of arg of the given kind, by position.
LinesOf(kind) == { i \in 1..Len(arg.lines) : arg.lines[i].kind = kind }
FirstOf(kind) == CHOOSE i \in LinesOf(kind) : \A j \in LinesOf(kind) : i <= j
LastOf(kind) == CHOOSE i \in LinesOf(kind) : \A j \in LinesOf(kind) : j <= i

\* A well-formed header block: at least one line, every line has a colon
\* and fits the buffer, every Status value starts with three digits, and a
\* blank line ends the block.
WellFormedBlock ==
  /\ arg.lines # <<>>
  /\ arg.sawBlankLine
  /\ LinesOf("nocolon") = {} /\ LinesOf("long") = {}
  /\ \A i \in LinesOf("Status") :
       /\ Len(arg.lines[i].val) >= 3
       /\ \A j \in 1..3 : IsDigit(arg.lines[i].val[j])

\* The number a Status value starts with.
CodeOf(val) ==
  100 * DigitVal(val[1]) + 10 * DigitVal(val[2]) + DigitVal(val[3])

\* C14 as stated: for a well-formed block the status is the explicit Status
\* code if a Status header was given (the last one, if several); otherwise
\* 302 if a Location header with a non-empty value is present; otherwise 500
\* with the missing Content-Type error if no Content-Type header is present;
\* otherwise 200.
StatusDecision ==
  (Returned("writeResponse") /\ WellFormedBlock) =>
    ret =
      IF LinesOf("Status") # {}
      THEN Response(TRUE, CodeOf(arg.lines[LastOf("Status")].val), "nil")
      ELSE IF \E i \in LinesOf("Location") : arg.lines[i].val # <<>>
      THEN Response(TRUE, 302, "nil")
      ELSE IF LinesOf("Content-Type") = {}
      THEN Response(TRUE, 500, "missing required Content-Type in headers")
      ELSE Response(TRUE, 200, "nil")

\* C14 amended: a Status of 000 counts as no Status; of several Location or
\* Content-Type headers the first counts; a Content-Type with an empty value
\* counts as none.
StatusDecisionNonZero ==
  (Returned("writeResponse") /\ WellFormedBlock) =>
    LET code == IF LinesOf("Status") = {} THEN 0
                ELSE CodeOf(arg.lines[LastOf("Status")].val)
        loc  == IF LinesOf("Location") = {} THEN <<>>
                ELSE arg.lines[FirstOf("Location")].val
        ct   == IF LinesOf("Content-Type") = {} THEN <<>>
                ELSE arg.lines[FirstOf("Content-Type")].val
    IN  ret =
          IF code # 0 THEN Response(TRUE, code, "nil")
          ELSE IF loc # <<>> THEN Response(TRUE, 302, "nil")
          ELSE IF ct = <<>>
          THEN Response(TRUE, 500, "missing required Content-Type in headers")
          ELSE Response(TRUE, 200, "nil")

\* An explicit Status 404 next to a Location and without Content-Type has
\* been committed as 404.
StatusDecisionNonZeroWitness ==
  /\ Returned("writeResponse")
  /\ WellFormedBlock
  /\ LinesOf("Status") # {}
  /\ \E i \in LinesOf("Location") : arg.lines[i].val # <<>>
  /\ LinesOf("Content-Type") = {}
  /\ ret = Response(TRUE, 404, "nil")

\* The transport write of one whole record.
WholeRecord(r) == <<Part("header", r), Part("body", r), Part("pad", r)>>

\* The transport writes of goroutine t, by position.
WritesOf(t) == { i \in 1..Len(rwc) : rwc[i][2].of[1] = t }

\* C11: every transport write is the header, the body and the padding of
\* one record and nothing else; every writeRecord call makes exactly one
\* transport write; the records of one goroutine are on the transport in the
\* order of its writeRecord calls.
AtomicRecords ==
  /\ \A i \in 1..Len(rwc) :
       /\ Len(rwc[i]) = 3
       /\ rwc[i] = WholeRecord(rwc[i][2].of)
  /\ \A t \in Calls :
       /\ Cardinality(WritesOf(t)) =
            tk[t] + (IF tpc[t] = "unlock" THEN 1 ELSE 0)
       /\ \A i, j \in WritesOf(t) :
            i < j <=> rwc[i][2].of[2] < rwc[j][2].of[2]

\* Every goroutine has written all its records, and two goroutines took
\* turns.
AtomicRecordsWitness ==
  /\ \A t \in Calls : tk[t] = MaxRecs
  /\ \E i \in 1..(Len(rwc) - 2) :
       /\ rwc[i][2].of[1] # rwc[i + 1][2].of[1]
       /\ rwc[i + 1][2].of[1] # rwc[i + 2][2].of[1]

\* A Do call that was refused has had no effect on its own state.
Untouched(c) ==
  /\ wlog[c] = <<>> /\ wq[c] = <<>>
  /\ wpc[c] = "idle" /\ rpc[c] = "idle" /\ ipc[c] = "idle" /\ spc[c] = "idle"
  /\ wg[c] = 0 /\ nrel[c] = 0 /\ ~pclosed[c]
  /\ sinkOut[c] = <<>> /\ sinkErr[c] = <<>>

\* C12: once client.Close has returned, no Do call gets past the c.conn
\* test: none is in Alloc or has goroutines running, a call that enters is
\* refused, and a refused call has no state; from then on the pool, the
\* write logs and the closed transport are left alone; it is closed at
\* most once and every Close after the first returns nil.
ClosedClientRefuses ==
  /\ [](connNil =>
         \A c \in Calls : dpc[c] # "alloc" /\ (dpc[c] = "started" => spc[c] = "done"))
  /\ [](\A c \in Calls : dpc[c] = "refused" => (connNil /\ Untouched(c)))
  /\ [](/\ nclose <= 1
        /\ connNil <=> nclose = 1
        /\ \A i \in 2..Len(closeRets) : closeRets[i] = NoErr)
  /\ [][connNil =>
          /\ connNil'
          /\ UNCHANGED <<poolVars, reqID, wlog, wg, nclose>>
          /\ \A c \in Calls : dpc'[c] \in {dpc[c], "refused"}]_vars

\* One call completed, Close was called twice, and a later Do was refused.
ClosedClientRefusesWitness ==
  /\ Len(closeRets) = 2
  /\ \E c \in Calls : dpc[c] = "refused"
  /\ \E c \in Calls : nrel[c] = 1

\* Steps of call c by the goroutine that takes them.
LoopWrites(c, pc) == ipc[c] = pc /\ ipc'[c] = "read"
SupervisorWrites(c) == spc[c] = "write" /\ spc'[c] = "select"
SupervisorCloses(c) == spc[c] = "select" /\ spc'[c] = "done"
PipeWritten(c) == sinkOut'[c] # sinkOut[c] \/ sinkErr'[c] # sinkErr[c]

\* C19 as stated: every write on a pipe writer is a step of the read loop,
\* and the supervisor only closes the writers.
OnlyReaderWrites ==
  [][\A c \in Calls :
       /\ PipeWritten(c) => (LoopWrites(c, "wout") \/ LoopWrites(c, "werr"))
       /\ pclosed'[c] # pclosed[c] => SupervisorCloses(c)]_vars

\* C19: the stdout writer is written by the read loop only; the stderr
\* writer is written by the read loop and by the supervisor, which writes
\* the errors it receives from rwError; the writer goroutine writes on
\* neither; only the supervisor closes the writers.
PipeWriters ==
  [][\A c \in Calls :
       /\ sinkOut'[c] # sinkOut[c] => LoopWrites(c, "wout")
       /\ sinkErr'[c] # sinkErr[c] => (LoopWrites(c, "werr") \/ SupervisorWrites(c))
       /\ PipeWritten(c) => wpc'[c] = wpc[c]
       /\ pclosed'[c] # pclosed[c] => SupervisorCloses(c)]_vars

\* The stderr pipe of a call has carried data written by the read loop and
\* an error written by the supervisor.
PipeWritersWitness ==
  \E c \in Calls :
    /\ \E i \in 1..Len(sinkErr[c]) : sinkErr[c][i].text \in {"content", UnexpectedDiag}
    /\ \E i \in 1..Len(sinkErr[c]) : sinkErr[c][i].text \notin {"content", UnexpectedDiag}

\* The data in a pipe that came from peer records.
FromRecords(sink) ==
  SelectSeq(sink, LAMBDA d : d.text \in {"content", UnexpectedDiag})

\* The records before EndRequest that are on the transport.
Pending == SelectSeq(inbox, LAMBDA rec : rec.type # typeEndRequest)

\* The records a call's read loop holds: written to a pipe, being written,
\* or the one whose read failed.
RECURSIVE HeldBy(_)
HeldBy(cs) ==
  IF cs = {} THEN 0
  ELSE LET c == CHOOSE x \in cs : TRUE
       IN Len(FromRecords(sinkOut[c])) + Len(FromRecords(sinkErr[c]))
          + (IF ipc[c] \in {"wout", "werr", "failed"} THEN 1 ELSE 0)
          + HeldBy(cs \ {c})

\* The peer's records carry falling seq numbers: arrival order.
InArrivalOrder(sink) ==
  \A i, j \in 1..Len(sink) : i < j => sink[i].seq > sink[j].seq

\* One step of the read loop of call c.
ReadLoopStep(c) ==
  /\ (ipc[c] = "read" /\ ipc'[c] # "read") =>
       /\ inbox # <<>>
       /\ inbox' = Tail(inbox)
       /\ LET rec == Head(inbox)
          IN recordReadOK(rec) =>
               /\ rec.type = typeStdout =>
                    ipc'[c] = "wout" /\ irec'[c] = Datum(rec.text, rec.id, rec.seq)
               /\ rec.type = typeStderr =>
                    ipc'[c] = "werr" /\ irec'[c] = Datum(rec.text, rec.id, rec.seq)
               /\ rec.type = typeEndRequest => ipc'[c] = "ended"
               /\ rec.type \notin {typeStdout, typeStderr, typeEndRequest} =>
                    ipc'[c] = "werr" /\ irec'[c] = Datum(UnexpectedDiag, rec.id, rec.seq)
  /\ (ipc[c] = "wout" /\ ipc'[c] # "wout") =>
       /\ ipc'[c] = "read"
       /\ ~pclosed[c] => sinkOut'[c] = Append(sinkOut[c], irec[c])
       /\ sinkErr'[c] = sinkErr[c]
  /\ (ipc[c] = "werr" /\ ipc'[c] # "werr") =>
       /\ ipc'[c] = "read"
       /\ ~pclosed[c] => sinkErr'[c] = Append(sinkErr[c], irec[c])
       /\ sinkOut'[c] = sinkOut[c]
  /\ ipc[c] = "ended" => ipc'[c] = "ended"

\* C20: the read loop writes the content of a Stdout record to the stdout
\* pipe and of a Stderr record to the stderr pipe, writes a diagnostic to
\* the stderr pipe for a record of another type and goes on, and reads
\* nothing after its first EndRequest; each pipe carries the records in
\* arrival order; while no context is cancelled every record the peer sent
\* before EndRequest is on the transport or held by a read loop.
ReadLoopDispatch ==
  /\ [][\A c \in Calls : ReadLoopStep(c)]_vars
  /\ [](\A c \in Calls :
          /\ InArrivalOrder(sinkOut[c])
          /\ InArrivalOrder(FromRecords(sinkErr[c])))
  /\ []((\A c \in Calls : ~ctxDone[c]) =>
          (MaxJunk + 1) - njunk = Len(Pending) + HeldBy(Calls))

\* A read loop has written a Stdout record's content to the stdout pipe and
\* a diagnostic for an unexpected record to the stderr pipe, and has then
\* stopped at EndRequest.
ReadLoopDispatchWitness ==
  \E c \in Calls :
    /\ ipc[c] = "ended"
    /\ \E i \in 1..Len(sinkOut[c]) : sinkOut[c][i].text = "content"
    /\ \E i \in 1..Len(sinkErr[c]) : sinkErr[c][i].text = UnexpectedDiag

\* C15: when the CGI parser has failed, the peer has sent EndRequest, the
\* writer goroutine has finished and no context is cancelled, WriteTo
\* returns.
WriteToTerminates ==
  \A c \in Calls :
    (parserReturned(sinkOut[c]) /\ pend[c] /\ wpc[c] = "done"
       /\ ncancel = MaxCancels)
      ~> (wtDone[c] \/ ncancel < MaxCancels)

\* The error is in what the stderr pipe of call c has delivered.
Delivered(c, err) == \E i \in 1..Len(sinkErr[c]) : sinkErr[c][i].text = err

\* C21: an error a worker has sent on rwError is the one the supervisor
\* holds or has written to the stderr pipe, and it is in the pipe when the
\* pipes are closed; when the supervisor has closed rwError both workers are
\* past their sends; a worker at its send gets past it.
FanInSafe ==
  /\ [](\A c \in Calls :
          /\ spc[c] = "write" =>
               /\ ~pclosed[c]
               /\ serr[c] # NoErr
               /\ serr[c] \in {werr[c], rerr[c]}
          /\ (wpc[c] = "done" /\ werr[c] # NoErr) => Reported(c, werr[c])
          /\ (rpc[c] = "done" /\ rerr[c] # NoErr) => Reported(c, rerr[c])
          /\ spc[c] = "done" => (wpc[c] = "done" /\ rpc[c] = "done")
          /\ pclosed[c] =>
               /\ spc[c] = "done"
               /\ werr[c] # NoErr => Delivered(c, werr[c])
               /\ rerr[c] # NoErr => Delivered(c, rerr[c]))
  /\ \A c \in Calls : (wpc[c] = "send") ~> (wpc[c] = "done")
  /\ \A c \in Calls : (rpc[c] = "send") ~> (rpc[c] = "done")

\* Both workers of a call have sent an error, both errors are in the stderr
\* pipe and the supervisor has closed the pipes and rwError.
FanInSafeWitness ==
  \E c \in Calls :
    /\ pclosed[c] /\ spc[c] = "done"
    /\ werr[c] # NoErr /\ rerr[c] # NoErr
    /\ Delivered(c, werr[c]) /\ Delivered(c, rerr[c])

\* C22: once the supervisor of a call has released the id and closed the
\* pipes, the call's read loop has ended: it neither reads the transport nor
\* writes to the call's pipes.
RequestContained ==
  \A c \in Calls :
    (spc[c] = "done" /\ nrel[c] = 1 /\ pclosed[c]) => loopClosedDone(ipc[c])

\* C23: no goroutine of a Do call dereferences a nil c.conn.
NoNilDereference == ~Crashed

\* The places of the calls of fn.
CallsOf(fn) == { i \in 1..Len(ret.calls) : ret.calls[i].fn = fn }

\* The values of the lines with header name k, in line order.
ValuesOf(k) ==
  LET ls == SelectSeq(arg.lines, LAMBDA l : l.kind = k)
  IN  [i \in 1..Len(ls) |-> ls[i].val]

\* C24: when writeResponse returns an error it has made no call that
\* changes the sink's header map and has copied no body; when it returns
\* nil, every line that is not a Status line has been added to the sink's
\* header map behind the values that were there, in line order for each
\* name, and every Header.Add comes before the one WriteHeader, which comes
\* before the body copy.
HeadersCommitted ==
  Returned("writeResponse.sink") =>
    /\ ret.resp.err # "nil" =>
         /\ CallsOf("Header.Add") = {}
         /\ CallsOf("Copy") = {}
         /\ ret.header = arg.sink
    /\ ret.resp.err = "nil" =>
         /\ \A k \in Keys : ret.header[k] = arg.sink[k] \o ValuesOf(k)
         /\ Cardinality(CallsOf("Header.Add"))
              = Len(SelectSeq(arg.lines, LAMBDA l : l.kind # "Status"))
         /\ Cardinality(CallsOf("WriteHeader")) = 1
         /\ Cardinality(CallsOf("Copy")) = 1
         /\ \A a \in CallsOf("Header.Add"), w \in CallsOf("WriteHeader") : a < w
         /\ \A w \in CallsOf("WriteHeader"), b \in CallsOf("Copy") : w < b

\* A successful writeResponse with two Content-Type lines on a sink that
\* already had a Content-Type value.
HeadersCommittedWitness ==
  /\ Returned("writeResponse.sink")
  /\ ret.resp.err = "nil"
  /\ ret.header["Content-Type"] = <<<<"old">>, <<"a">>, <<"b">>>>
  /\ Len(ret.header["other"]) = 2

=============================================================================
